---- MODULE Spec2Model ----
(***************************************************************************)
(* A model of tardis/io/util.py:                                           *)
(*   - to_hdf, as a state machine over the HDF store (Spec);               *)
(*   - traverse_configs / assert_equality / check_equality, as operators   *)
(*     applied to bounded configuration trees (SpecEq);                    *)
(*   - YAMLLoader.mapping_constructor, as an operator applied to the       *)
(*     (key, value) pairs of a mapping node (SpecYaml).                    *)
(***************************************************************************)
EXTENDS Integers, Sequences, FiniteSets, TLC

VARIABLES
    store,          \* the HDF file: key under `path` -> node
    pc,             \* position of to_hdf: idle, loop, fallback, open, write
    elements,       \* the argument `elements` of the running call, in iteration order
    rest,           \* the items of `elements` still to be iterated
    complevel,      \* argument complevel of the running call
    complib,        \* argument complib of the running call
    scalars,        \* the local dict `scalars`
    scalars_series, \* the local `scalars_series`
    outcome,        \* how the last call ended: none, returned, raised
    ncalls,         \* calls started so far
    log,            \* store operations of the running (or last) call, in order
    pre,            \* the store as it was when the running (or last) call began
    hist,           \* per returned call, the Series built from its scalars
    allReturned,    \* no call has raised so far
    item1,          \* check_equality: first argument
    item2,          \* check_equality: second argument
    eqret,          \* check_equality: "pending", "True", "False" or the exception raised
    node,           \* mapping_constructor: the (key, value) pairs of the mapping node
    loaded          \* mapping_constructor: "pending"/"done" and the mapping built

vars == <<store, pc, elements, rest, complevel, complib, scalars, scalars_series,
          outcome, ncalls, log, pre, hist, allReturned,
          item1, item2, eqret, node, loaded>>

hdfVars == <<store, pc, elements, rest, complevel, complib, scalars, scalars_series,
             outcome, ncalls, log, pre, hist, allReturned>>
eqVars == <<item1, item2, eqret>>
yamlVars == <<node, loaded>>

(***************************************************************************)
(* Bounds                                                                  *)
(***************************************************************************)
MaxCalls == 2

\* Names of the elements handed to to_hdf; "scalars" is the key the function
\* reserves for the scalar record and is not used as an element name here.
Names == {"a", "b"}
ScalarsKey == "scalars"
Keys == Names \cup {ScalarsKey}

(***************************************************************************)
(* Values handed to to_hdf                                                 *)
(***************************************************************************)
\* cls: the Python class; ndim: value.ndim; num: the magnitude of a scalar;
\* data: the payload of an array or list; factor: the unit's factor to CGS.
PyFloat(n) == [cls |-> "float", ndim |-> 0, num |-> n, data |-> "", factor |-> 1]
QuantityArray(payload, f) == [cls |-> "Quantity", ndim |-> 1, num |-> 0, data |-> payload, factor |-> f]
NdArray(d, payload) == [cls |-> "ndarray", ndim |-> d, num |-> 0, data |-> payload, factor |-> 1]
PyList(payload) == [cls |-> "list", ndim |-> 0, num |-> 0, data |-> payload, factor |-> 1]

ElementValues ==
    { PyFloat(5), QuantityArray("q12", 10), NdArray(2, "m1234"), PyList("l7") }

\* value.cgs.value: the magnitude in CGS units, a plain float or ndarray
CgsValue(value) ==
    IF value.ndim = 0
    THEN PyFloat(value.num * value.factor)
    ELSE NdArray(value.ndim, "cgs(" \o value.data \o ")")

\* line 197-198
Unwrapped(value) == IF value.cls = "Quantity" THEN CgsValue(value) ELSE value

\* np.isscalar(value)
IsScalar(value) == value.cls = "float"

\* hasattr(value, 'shape')
HasShape(value) == value.cls = "ndarray"

(***************************************************************************)
(* The store                                                               *)
(***************************************************************************)
\* pandas' to_hdf without complevel/complib writes uncompressed
StoreDefaults == [complevel |-> 0, complib |-> "none"]

Absent == [cls |-> "absent", data |-> "", wrapped |-> FALSE, rows |-> <<>>,
           complevel |-> StoreDefaults.complevel, complib |-> StoreDefaults.complib]

\* obj.to_hdf(path_or_buf, key): the node the store holds after the write;
\* no compression argument is passed, the store's defaults apply
ToHdf(obj) ==
    [obj EXCEPT !.complevel = StoreDefaults.complevel, !.complib = StoreDefaults.complib]

\* pd.Series(value), pd.DataFrame(value), pd.DataFrame([value])
SeriesNode(value) == [Absent EXCEPT !.cls = "Series", !.data = value.data]
FrameNode(value) == [Absent EXCEPT !.cls = "DataFrame", !.data = value.data]
WrappedFrameNode(value) == [Absent EXCEPT !.cls = "DataFrame", !.data = value.data, !.wrapped = TRUE]

\* pd.Series(scalars): one row per (name, value) of the dict
ScalarSeries(rows) == [Absent EXCEPT !.cls = "Series", !.rows = rows]

\* Mutant of SeriesAppend: a row of the old record whose name comes again is replaced.
SeriesAppendUpsert(old, new) ==
    LET Kept(row) == \A j \in 1..Len(new.rows) : new.rows[j].key # row.key
    IN [old EXCEPT !.rows = SelectSeq(old.rows, Kept) \o new.rows]

\* Series.append: the rows of the other follow the rows of this one
SeriesAppend(old, new) == [old EXCEPT !.rows = old.rows \o new.rows]

\* What a write that raised leaves at its key: the node as it was, or nothing
\* (the fixed format removes the old node before it writes the new one).
AfterFailedWrite(old) == {old, Absent}

WriteResults == {"ok", "NotImplementedError", "IOError"}

Event(op, key, form, res) == [op |-> op, key |-> key, form |-> form, res |-> res]

(***************************************************************************)
(* to_hdf                                                                  *)
(***************************************************************************)
\* the (name, CGS magnitude) entries of the scalar elements of a dict
ScalarEntries(dict) ==
    LET IsScalarItem(item) == IsScalar(Unwrapped(item.value))
        picked == SelectSeq(dict, IsScalarItem)
    IN [i \in 1..Len(picked) |->
            [key |-> picked[i].key, value |-> Unwrapped(picked[i].value).num]]

RECURSIVE DistinctSeqs(_, _)
\* the sequences of n (name, value) pairs with distinct names from S
DistinctSeqs(S, n) ==
    IF n = 0 THEN {<<>>}
    ELSE UNION {{<<[key |-> k, value |-> v]>> \o s : s \in DistinctSeqs(S \ {k}, n - 1)}
                : <<k, v>> \in S \X ElementValues}

\* the dicts to_hdf may be handed, each in one of its iteration orders
ElementDicts == UNION {DistinctSeqs(Names, n) : n \in 0..Cardinality(Names)}

CompressionArgs == {<<9, "blosc">>, <<5, "zlib">>}

HdfInit ==
    /\ store = [k \in Keys |-> Absent]
    /\ pc = "idle"
    /\ elements = <<>>
    /\ rest = <<>>
    /\ complevel = 9
    /\ complib = "blosc"
    /\ scalars = <<>>
    /\ scalars_series = Absent
    /\ outcome = "none"
    /\ ncalls = 0
    /\ log = <<>>
    /\ pre = [k \in Keys |-> Absent]
    /\ hist = <<>>
    /\ allReturned = TRUE

\* line 170, 195: the call begins, scalars = {}
Call ==
    /\ pc = "idle"
    /\ ncalls < MaxCalls
    /\ \E e \in ElementDicts, c \in CompressionArgs :
          /\ elements' = e
          /\ rest' = e
          /\ complevel' = c[1]
          /\ complib' = c[2]
    /\ scalars' = <<>>
    /\ scalars_series' = Absent
    /\ outcome' = "none"
    /\ ncalls' = ncalls + 1
    /\ log' = <<>>
    /\ pre' = store
    /\ pc' = "loop"
    /\ UNCHANGED <<store, hist, allReturned>>

\* the exception leaves to_hdf
Raise ==
    /\ pc' = "idle"
    /\ outcome' = "raised"
    /\ allReturned' = FALSE
    /\ UNCHANGED <<elements, rest, complevel, complib, scalars, scalars_series,
                   ncalls, pre, hist>>

\* Mutant of BufferScalar: the scalar is written to path/scalars at once.
BufferScalarWriteThrough ==
    /\ pc = "loop"
    /\ rest # <<>>
    /\ IsScalar(Unwrapped(Head(rest).value))
    /\ scalars' = Append(scalars, [key |-> Head(rest).key, value |-> Unwrapped(Head(rest).value).num])
    /\ store' = [store EXCEPT ![ScalarsKey] =
                    ScalarSeries(store[ScalarsKey].rows \o
                        <<[key |-> Head(rest).key, value |-> Unwrapped(Head(rest).value).num]>>)]
    /\ rest' = Tail(rest)
    /\ UNCHANGED <<pc, elements, complevel, complib, scalars_series, outcome,
                   ncalls, log, pre, hist, allReturned>>

\* line 199-200: a scalar is put into the dict
BufferScalar ==
    /\ pc = "loop"
    /\ rest # <<>>
    /\ IsScalar(Unwrapped(Head(rest).value))
    /\ scalars' = Append(scalars, [key |-> Head(rest).key, value |-> Unwrapped(Head(rest).value).num])
    /\ rest' = Tail(rest)
    /\ UNCHANGED <<store, pc, elements, complevel, complib, scalars_series, outcome,
                   ncalls, log, pre, hist, allReturned>>

\* Mutant of TableWrite: the new table is appended to the one already there.
TableWriteAppending(key, nodeToWrite, res) ==
    /\ log' = Append(log, Event("table", key, nodeToWrite.cls, res))
    /\ IF res = "ok"
       THEN store' = [store EXCEPT ![key] =
                        [nodeToWrite EXCEPT !.data = store[key].data \o nodeToWrite.data]]
       ELSE \E left \in AfterFailedWrite(store[key]) : store' = [store EXCEPT ![key] = left]

\* Mutant of TableWrite: a write that raises undoes what the call has written.
TableWriteRollingBack(key, nodeToWrite, res) ==
    /\ log' = Append(log, Event("table", key, nodeToWrite.cls, res))
    /\ IF res = "ok"
       THEN store' = [store EXCEPT ![key] = nodeToWrite]
       ELSE store' = pre

\* one obj.to_hdf(path_or_buf, os.path.join(path, key)) of the loop, with its result
TableWrite(key, nodeToWrite, res) ==
    /\ log' = Append(log, Event("table", key, nodeToWrite.cls, res))
    /\ IF res = "ok"
       THEN store' = [store EXCEPT ![key] = ToHdf(nodeToWrite)]
       ELSE \E left \in AfterFailedWrite(store[key]) : store' = [store EXCEPT ![key] = left]

\* line 202-206: a 1-D array is written as a Series
WriteSeries ==
    /\ pc = "loop"
    /\ rest # <<>>
    /\ LET value == Unwrapped(Head(rest).value) IN
         /\ ~IsScalar(value) /\ HasShape(value) /\ value.ndim = 1
         /\ \E res \in WriteResults :
              /\ TableWrite(Head(rest).key, SeriesNode(value), res)
              /\ CASE res = "ok" ->
                        /\ rest' = Tail(rest)
                        /\ UNCHANGED <<pc, elements, complevel, complib, scalars,
                                       scalars_series, outcome, ncalls, pre, hist, allReturned>>
                   [] res = "NotImplementedError" ->
                        /\ pc' = "fallback"
                        /\ UNCHANGED <<elements, rest, complevel, complib, scalars,
                                       scalars_series, outcome, ncalls, pre, hist, allReturned>>
                   [] OTHER -> Raise

\* Mutant of WriteFallback: a NotImplementedError of the DataFrame write is retried.
WriteFallbackRetrying ==
    /\ pc = "fallback"
    /\ LET value == Unwrapped(Head(rest).value) IN
         \E res \in WriteResults :
              /\ TableWrite(Head(rest).key, FrameNode(value), res)
              /\ CASE res = "ok" ->
                        /\ rest' = Tail(rest)
                        /\ pc' = "loop"
                        /\ UNCHANGED <<elements, complevel, complib, scalars,
                                       scalars_series, outcome, ncalls, pre, hist, allReturned>>
                   [] res = "NotImplementedError" ->
                        UNCHANGED <<pc, elements, rest, complevel, complib, scalars,
                                    scalars_series, outcome, ncalls, pre, hist, allReturned>>
                   [] OTHER -> Raise

\* line 207-209: except NotImplementedError, the array is written as a DataFrame
WriteFallback ==
    /\ pc = "fallback"
    /\ LET value == Unwrapped(Head(rest).value) IN
         \E res \in WriteResults :
              /\ TableWrite(Head(rest).key, FrameNode(value), res)
              /\ IF res = "ok"
                 THEN /\ rest' = Tail(rest)
                      /\ pc' = "loop"
                      /\ UNCHANGED <<elements, complevel, complib, scalars,
                                     scalars_series, outcome, ncalls, pre, hist, allReturned>>
                 ELSE Raise

\* line 210-211: an array of another rank is written as a DataFrame
WriteFrame ==
    /\ pc = "loop"
    /\ rest # <<>>
    /\ LET value == Unwrapped(Head(rest).value) IN
         /\ ~IsScalar(value) /\ HasShape(value) /\ value.ndim # 1
         /\ \E res \in WriteResults :
              /\ TableWrite(Head(rest).key, FrameNode(value), res)
              /\ IF res = "ok"
                 THEN /\ rest' = Tail(rest)
                      /\ UNCHANGED <<pc, elements, complevel, complib, scalars,
                                     scalars_series, outcome, ncalls, pre, hist, allReturned>>
                 ELSE Raise

\* line 212-214: anything else is wrapped in a one-row DataFrame
WriteOther ==
    /\ pc = "loop"
    /\ rest # <<>>
    /\ LET value == Unwrapped(Head(rest).value) IN
         /\ ~IsScalar(value) /\ ~HasShape(value)
         /\ \E res \in WriteResults :
              /\ TableWrite(Head(rest).key, WrappedFrameNode(value), res)
              /\ IF res = "ok"
                 THEN /\ rest' = Tail(rest)
                      /\ UNCHANGED <<pc, elements, complevel, complib, scalars,
                                     scalars_series, outcome, ncalls, pre, hist, allReturned>>
                 ELSE Raise

\* line 216 with an empty dict: to_hdf returns
ReturnNoScalars ==
    /\ pc = "loop"
    /\ rest = <<>>
    /\ scalars = <<>>
    /\ pc' = "idle"
    /\ outcome' = "returned"
    /\ hist' = Append(hist, <<>>)
    /\ UNCHANGED <<store, elements, rest, complevel, complib, scalars, scalars_series,
                   ncalls, log, pre, allReturned>>

\* line 216-217: scalars_series = pd.Series(scalars)
BuildSeries ==
    /\ pc = "loop"
    /\ rest = <<>>
    /\ scalars # <<>>
    /\ scalars_series' = ScalarSeries(scalars)
    /\ pc' = "open"
    /\ UNCHANGED <<store, elements, rest, complevel, complib, scalars, outcome,
                   ncalls, log, pre, hist, allReturned>>

\* line 220-223: the store is opened with complevel and complib, the record
\* already there is read and the new Series appended to it; the store is
\* closed when the with block is left
OpenAndMerge ==
    /\ pc = "open"
    /\ \E res \in {"ok", "IOError"} :
         /\ log' = Append(log, Event("open", ScalarsKey, "HDFStore", res))
         /\ IF res = "ok"
            THEN /\ scalars_series' =
                        IF store[ScalarsKey].cls # "absent"
                        THEN SeriesAppend(store[ScalarsKey], scalars_series)
                        ELSE scalars_series
                 /\ pc' = "write"
                 /\ UNCHANGED <<elements, rest, complevel, complib, scalars, outcome,
                                ncalls, pre, hist, allReturned>>
            ELSE /\ Raise
    /\ UNCHANGED store

\* line 224: scalars_series.to_hdf(path_or_buf, os.path.join(path, 'scalars')),
\* after the with block, with no compression argument
WriteScalars ==
    /\ pc = "write"
    /\ \E res \in {"ok", "IOError"} :
         /\ log' = Append(log, Event("scalars", ScalarsKey, scalars_series.cls, res))
         /\ IF res = "ok"
            THEN /\ store' = [store EXCEPT ![ScalarsKey] = ToHdf(scalars_series)]
                 /\ pc' = "idle"
                 /\ outcome' = "returned"
                 /\ hist' = Append(hist, ScalarEntries(elements))
                 /\ UNCHANGED <<elements, rest, complevel, complib, scalars, scalars_series,
                                ncalls, pre, allReturned>>
            ELSE /\ \E left \in AfterFailedWrite(store[ScalarsKey]) :
                        store' = [store EXCEPT ![ScalarsKey] = left]
                 /\ Raise

HdfNext ==
    \/ Call
    \/ BufferScalar
    \/ WriteSeries
    \/ WriteFallback
    \/ WriteFrame
    \/ WriteOther
    \/ ReturnNoScalars
    \/ BuildSeries
    \/ OpenAndMerge
    \/ WriteScalars

(***************************************************************************)
(* Configuration trees                                                     *)
(***************************************************************************)
MaxSeqLen == 2
MaxPairs == 3

\* A node of a tree. kind: leaf, map or seq; type: the Python class;
\* special: finite, nan or inf for a magnitude; num: the magnitude (or 0/1
\* for a bool); chars: the characters of a str; unit: the unit of a
\* Quantity; items: the (key, value) pairs of a mapping in order, or the
\* elements of a sequence.
TreeNode(kind, type, special, num, chars, unit, items) ==
    [kind |-> kind, type |-> type, special |-> special, num |-> num,
     chars |-> chars, unit |-> unit, items |-> items]

Float(n) == TreeNode("leaf", "float", "finite", n, <<>>, "", <<>>)
NaN == TreeNode("leaf", "float", "nan", 0, <<>>, "", <<>>)
Infinity == TreeNode("leaf", "float", "inf", 0, <<>>, "", <<>>)
Str(chars) == TreeNode("leaf", "str", "", 0, chars, "", <<>>)
Bool(b) == TreeNode("leaf", "bool", "", IF b THEN 1 ELSE 0, <<>>, "", <<>>)
Quantity(n, unit) == TreeNode("leaf", "Quantity", "finite", n, <<>>, unit, <<>>)
QuantityNaN(unit) == TreeNode("leaf", "Quantity", "nan", 0, <<>>, unit, <<>>)
MapNode(items) == TreeNode("map", "OrderedDict", "", 0, <<>>, "", items)
SeqNode(items) == TreeNode("seq", "list", "", 0, <<>>, "", items)

\* the sequences over S of length at most n
RECURSIVE SeqsUpTo(_, _)
SeqsUpTo(S, n) ==
    IF n = 0 THEN {<<>>}
    ELSE LET shorter == SeqsUpTo(S, n - 1)
         IN shorter \cup {Append(s, x) : s \in shorter, x \in S}

TreeKeys == {"x", "y"}

\* the leaves used inside mappings and sequences, and all the leaves
InnerLeaves == {Float(1), NaN, Infinity, Str(<<"x">>), Quantity(1, "erg/s")}
Leaves ==
    InnerLeaves \cup
    {Float(200000), Float(200001), Bool(TRUE), Str(<<"x", "y">>),
     Quantity(1, "erg"), QuantityNaN("erg/s")}

\* the mappings with distinct keys from TreeKeys, in either order, over S
MapsOver(S) ==
    {MapNode(<<>>)}
    \cup {MapNode(<<[key |-> k, value |-> v]>>) : k \in TreeKeys, v \in S}
    \cup {MapNode(<<[key |-> k1, value |-> v1], [key |-> k2, value |-> v2]>>) :
            <<k1, k2>> \in {p \in TreeKeys \X TreeKeys : p[1] # p[2]}, <<v1, v2>> \in S \X S}

SeqsOver(S) == {SeqNode(s) : s \in SeqsUpTo(S, MaxSeqLen)}

SmallContainers ==
    {MapNode(<<>>), SeqNode(<<>>)}
    \cup {MapNode(<<[key |-> k, value |-> v]>>) : k \in TreeKeys, v \in InnerLeaves}
    \cup {SeqNode(<<v>>) : v \in InnerLeaves}

TinyContainers ==
    {MapNode(<<>>), SeqNode(<<>>), MapNode(<<[key |-> "x", value |-> Float(1)]>>),
     SeqNode(<<Float(1)>>)}

\* the configuration trees the comparator is applied to
Trees ==
    Leaves \cup MapsOver(InnerLeaves) \cup SeqsOver(InnerLeaves)
    \cup {SeqNode(<<c>>) : c \in SmallContainers}
    \cup {MapNode(<<[key |-> "x", value |-> c]>>) : c \in SmallContainers}
    \cup SeqsOver(TinyContainers)

(***************************************************************************)
(* traverse_configs, assert_equality, check_equality                       *)
(***************************************************************************)
\* other[k]: the value, or the exception the subscription raises. A mapping
\* without the key raises KeyError; a list, a str, a float, a bool and a
\* scalar Quantity cannot be subscripted with a str and raise TypeError.
GetItem(other, k) ==
    IF other.kind = "map"
    THEN IF \E i \in 1..Len(other.items) : other.items[i].key = k
         THEN [exc |-> "", value |->
                  other.items[CHOOSE i \in 1..Len(other.items) : other.items[i].key = k].value]
         ELSE [exc |-> "KeyError", value |-> other]
    ELSE [exc |-> "TypeError", value |-> other]

\* whether zip() can iterate over the object
IsIterable(other) == other.kind \in {"map", "seq"} \/ other.type = "str"

\* what iterating over the object yields: the elements of a list, the keys
\* of a mapping, the characters of a str
Iterate(other) ==
    CASE other.kind = "seq" -> other.items
      [] other.kind = "map" -> [i \in 1..Len(other.items) |-> Str(<<other.items[i].key>>)]
      [] OTHER -> [i \in 1..Len(other.chars) |-> Str(<<other.chars[i]>>)]

\* Mutant of Zip: the shorter sequence is padded, as izip_longest pads with None.
ZipLongest(s, t) ==
    LET None == TreeNode("leaf", "NoneType", "", 0, <<>>, "", <<>>)
        n == IF Len(s) >= Len(t) THEN Len(s) ELSE Len(t)
    IN [i \in 1..n |-> <<IF i <= Len(s) THEN s[i] ELSE None,
                         IF i <= Len(t) THEN t[i] ELSE None>>]

\* zip(base, other): pairs up to the length of the shorter
Zip(s, t) ==
    LET n == IF Len(s) <= Len(t) THEN Len(s) ELSE Len(t)
    IN [i \in 1..n |-> <<s[i], t[i]>>]

\* Mutant of AllClose: no special case for infinities, inf - inf is NaN.
AllCloseNaive(x1, x2) ==
    IF x1.special # "finite" \/ x2.special # "finite" THEN FALSE
    ELSE LET d == IF x1.num >= x2.num THEN x1.num - x2.num ELSE x2.num - x1.num
             m == IF x2.num >= 0 THEN x2.num ELSE 0 - x2.num
         IN d <= m \div 100000

\* np.allclose(item1, item2, atol=0.0) on two magnitudes, rtol left at its
\* default 1e-5: |item1 - item2| <= rtol * |item2|; a NaN is close to
\* nothing, an infinity to the same infinity only
AllClose(x1, x2) ==
    IF x1.special = "nan" \/ x2.special = "nan" THEN FALSE
    ELSE IF x1.special = "inf" \/ x2.special = "inf" THEN x1.special = x2.special
    ELSE LET d == IF x1.num >= x2.num THEN x1.num - x2.num ELSE x2.num - x1.num
             m == IF x2.num >= 0 THEN x2.num ELSE 0 - x2.num
         IN d <= m \div 100000

\* assert_equality: "ok", or the AssertionError of the assert that failed.
\* np.allclose raises TypeError on str (and, depending on the numpy, on
\* bool), and the except branch asserts item1 == item2.
AssertEquality(x1, x2) ==
    IF x1.type # x2.type THEN "AssertionError"
    ELSE IF x1.type = "Quantity" /\ x1.unit # x2.unit THEN "AssertionError"
    ELSE IF x1.type \in {"float", "Quantity"}
         THEN IF AllClose(x1, x2) THEN "ok" ELSE "AssertionError"
    ELSE IF x1.chars = x2.chars /\ x1.num = x2.num THEN "ok" ELSE "AssertionError"

RECURSIVE TraverseConfigs(_, _)

\* for k in base: traverse_configs(base[k], other[k], ...), from the i-th key on
RECURSIVE TraverseKeys(_, _, _)
TraverseKeys(items, other, i) ==
    IF i > Len(items) THEN "ok"
    ELSE LET got == GetItem(other, items[i].key) IN
         IF got.exc # "" THEN got.exc
         ELSE LET r == TraverseConfigs(items[i].value, got.value) IN
              IF r # "ok" THEN r ELSE TraverseKeys(items, other, i + 1)

\* for val1, val2 in zip(base, other): traverse_configs(val1, val2, ...), from the i-th pair on
RECURSIVE TraversePairs(_, _)
TraversePairs(pairs, i) ==
    IF i > Len(pairs) THEN "ok"
    ELSE LET r == TraverseConfigs(pairs[i][1], pairs[i][2]) IN
         IF r # "ok" THEN r ELSE TraversePairs(pairs, i + 1)

\* traverse_configs(base, other, assert_equality): "ok" or the exception raised
TraverseConfigs(base, other) ==
    IF base.kind = "map" THEN TraverseKeys(base.items, other, 1)
    ELSE IF base.kind = "seq"
         THEN IF IsIterable(other)
              THEN TraversePairs(Zip(base.items, Iterate(other)), 1)
              ELSE "TypeError"
    ELSE AssertEquality(base, other)

\* check_equality: only AssertionError is caught
CheckEqualityResult(x1, x2) ==
    LET r == TraverseConfigs(x1, x2) IN
    IF r = "ok" THEN "True"
    ELSE IF r = "AssertionError" THEN "False"
    ELSE r

EqInit ==
    /\ item1 \in Trees
    /\ item2 \in Trees
    /\ eqret = "pending"

check_equality ==
    /\ eqret = "pending"
    /\ eqret' = CheckEqualityResult(item1, item2)
    /\ UNCHANGED <<item1, item2>>

(***************************************************************************)
(* YAMLLoader.mapping_constructor                                          *)
(***************************************************************************)
YamlKeys == {"a", "b", "c"}

\* the scalar nodes used as values: the text of a float
YamlScalars == {[tag |-> "float", num |-> 1], [tag |-> "float", num |-> 2]}

\* the mapping nodes: sequences of (key node, value node), keys may repeat
MappingNodes == SeqsUpTo([key : YamlKeys, value : YamlScalars], MaxPairs)

\* construct_object on a scalar node resolved to a float
ConstructObject(n) == Float(n.num)

\* yaml's construct_pairs: the list of (key, value) in the order of the node
ConstructPairs(n) ==
    [i \in 1..Len(n) |-> [key |-> n[i].key, value |-> ConstructObject(n[i].value)]]

\* Mutant of OrderedDict: a key that is already there keeps its first value.
RECURSIVE OrderedDictKeepFirst(_)
OrderedDictKeepFirst(pairs) ==
    IF pairs = <<>> THEN <<>>
    ELSE LET d == OrderedDictKeepFirst(SubSeq(pairs, 1, Len(pairs) - 1))
             p == pairs[Len(pairs)]
         IN IF \E i \in 1..Len(d) : d[i].key = p.key THEN d ELSE Append(d, p)

\* OrderedDict(pairs): the pairs are inserted in order; inserting a key that
\* is already there replaces its value and leaves its position
RECURSIVE OrderedDict(_)
OrderedDict(pairs) ==
    IF pairs = <<>> THEN <<>>
    ELSE LET d == OrderedDict(SubSeq(pairs, 1, Len(pairs) - 1))
             p == pairs[Len(pairs)]
         IN IF \E i \in 1..Len(d) : d[i].key = p.key
            THEN [i \in 1..Len(d) |-> IF d[i].key = p.key THEN p ELSE d[i]]
            ELSE Append(d, p)

YamlInit ==
    /\ node \in MappingNodes
    /\ loaded = [state |-> "pending", mapping |-> MapNode(<<>>)]

\* line 90-91
mapping_constructor ==
    /\ loaded.state = "pending"
    /\ loaded' = [state |-> "returned", mapping |-> MapNode(OrderedDict(ConstructPairs(node)))]
    /\ UNCHANGED node

EqIdle == item1 = MapNode(<<>>) /\ item2 = MapNode(<<>>) /\ eqret = "pending"
YamlIdle == node = <<>> /\ loaded = [state |-> "pending", mapping |-> MapNode(<<>>)]

Init == HdfInit /\ EqIdle /\ YamlIdle
Next == HdfNext /\ UNCHANGED eqVars /\ UNCHANGED yamlVars
Spec == Init /\ [][Next]_vars

InitEq == HdfInit /\ EqInit /\ YamlIdle
NextEq == check_equality /\ UNCHANGED hdfVars /\ UNCHANGED yamlVars
SpecEq == InitEq /\ [][NextEq]_vars

InitYaml == HdfInit /\ EqIdle /\ YamlInit
NextYaml == mapping_constructor /\ UNCHANGED hdfVars /\ UNCHANGED eqVars
SpecYaml == InitYaml /\ [][NextYaml]_vars

(***************************************************************************)
(* Properties of to_hdf                                                    *)
(***************************************************************************)
RECURSIVE Flatten(_)
Flatten(ss) == IF ss = <<>> THEN <<>> ELSE Head(ss) \o Flatten(Tail(ss))

\* the part of `elements` the loop has gone through
Iterated == SubSeq(elements, 1, Len(elements) - Len(rest))

IsTableItem(item) == ~IsScalar(Unwrapped(item.value))

EventsOf(op) == LET Is(e) == e.op = op IN SelectSeq(log, Is)

\* the forms in which the value of an element may be written at its key
NodesOf(value) ==
    {SeriesNode(Unwrapped(value)), FrameNode(Unwrapped(value)), WrappedFrameNode(Unwrapped(value))}

C5_Claim ==
    /\ (pc = "idle" /\ outcome = "returned" /\ ScalarEntries(elements) # <<>>) =>
          /\ store[ScalarsKey].complevel = complevel
          /\ store[ScalarsKey].complib = complib
    /\ \A n \in Names :
          /\ store[n].complevel = StoreDefaults.complevel
          /\ store[n].complib = StoreDefaults.complib

C9_OneFallback ==
    LET tables == EventsOf("table")
        AttemptsAt(k) == LET At(e) == e.op = "table" /\ e.key = k IN SelectSeq(log, At)
        Retried(e) == e.form = "Series" /\ e.res = "NotImplementedError"
    IN
    /\ \A i \in 1..Len(Iterated) :
          LET item == Iterated[i]
              value == Unwrapped(item.value)
              att == AttemptsAt(item.key)
          IN IF ~IsTableItem(item) THEN att = <<>>
             ELSE IF HasShape(value) /\ value.ndim = 1
             THEN \/ Len(att) = 1 /\ att[1].form = "Series" /\ att[1].res = "ok"
                  \/ /\ Len(att) = 2
                     /\ Retried(att[1])
                     /\ att[2].form = "DataFrame" /\ att[2].res = "ok"
             ELSE Len(att) = 1 /\ att[1].form = "DataFrame" /\ att[1].res = "ok"
    /\ \A k \in Names :
          LET att == AttemptsAt(k) IN
          /\ Len(att) <= 2
          /\ Len(att) = 2 => Retried(att[1]) /\ att[2].form = "DataFrame"
    /\ \A i \in 1..Len(tables) :
          (tables[i].res # "ok" /\ ~Retried(tables[i])) =>
                /\ i = Len(tables)
                /\ log[Len(log)] = tables[i]
                /\ pc = "idle" /\ outcome = "raised"
    /\ pc = "fallback" <=>
          (log # <<>> /\ log[Len(log)].op = "table" /\ Retried(log[Len(log)]))

\* the Series write raised NotImplementedError, the DataFrame write raised
\* too: the call ended with the exception after two attempts
C9_Witness ==
    /\ pc = "idle" /\ outcome = "raised" /\ Len(log) = 2
    /\ log[1].key = log[2].key
    /\ log[1].form = "Series" /\ log[1].res = "NotImplementedError"
    /\ log[2].form = "DataFrame" /\ log[2].res # "ok"

C3_Claim == eqret \in {"pending", "True", "False"}

RECURSIVE HasNaN(_)
HasNaN(t) ==
    CASE t.kind = "map" -> \E i \in 1..Len(t.items) : HasNaN(t.items[i].value)
      [] t.kind = "seq" -> \E i \in 1..Len(t.items) : HasNaN(t.items[i])
      [] OTHER -> t.special = "nan"

C7_ZipShorter ==
    (eqret # "pending" /\ item1.kind = "seq" /\ item2.kind = "seq") =>
        LET n == IF Len(item1.items) <= Len(item2.items)
                 THEN Len(item1.items) ELSE Len(item2.items)
            r == [i \in 1..n |-> CheckEqualityResult(item1.items[i], item2.items[i])]
        IN /\ (eqret = "True") <=> (\A i \in 1..n : r[i] = "True")
           /\ eqret # "True" =>
                 \E i \in 1..n : r[i] = eqret /\ \A j \in 1..(i - 1) : r[j] = "True"

\* a longer first sequence against a shorter, non-empty second one: True
C7_Witness ==
    /\ eqret = "True" /\ item1.kind = "seq" /\ item2.kind = "seq"
    /\ Len(item2.items) >= 1
    /\ Len(item1.items) > Len(item2.items)

(***************************************************************************)
(* Properties of the mapping constructor                                   *)
(***************************************************************************)
HasDuplicateKey(n) == \E i, j \in 1..Len(n) : i < j /\ n[i].key = n[j].key

FirstIndex(n, k) == CHOOSE i \in 1..Len(n) : n[i].key = k /\ \A j \in 1..(i - 1) : n[j].key # k
LastIndex(n, k) == CHOOSE i \in 1..Len(n) : n[i].key = k /\ \A j \in (i + 1)..Len(n) : n[j].key # k

\* C6 (as claimed): loading a mapping node that declares a key twice fails.
C6_Claim == (loaded.state # "pending" /\ HasDuplicateKey(node)) => loaded.state = "error"

\* C6 (amended): the constructor never fails; the mapping it returns has one
\* entry per distinct key of the node, in the order of the keys' first
\* declarations, each with the value of the key's last declaration.
C6_LastValueFirstPosition ==
    /\ loaded.state \in {"pending", "returned"}
    /\ loaded.state = "returned" =>
          LET m == loaded.mapping.items IN
          /\ loaded.mapping.kind = "map"
          /\ \A i, j \in 1..Len(m) : i < j => m[i].key # m[j].key
          /\ {m[i].key : i \in 1..Len(m)} = {node[i].key : i \in 1..Len(node)}
          /\ \A i, j \in 1..Len(m) :
                i < j => FirstIndex(node, m[i].key) < FirstIndex(node, m[j].key)
          /\ \A i \in 1..Len(m) :
                m[i].value = ConstructObject(node[LastIndex(node, m[i].key)].value)

\* a node that declares a key twice with two values, another key between
C6_Witness ==
    /\ loaded.state = "returned"
    /\ \E i, j \in 1..Len(node) :
          /\ i + 1 < j
          /\ node[i].key = node[j].key
          /\ node[i].value # node[j].value
    /\ Len(loaded.mapping.items) = 2

====
